---- MODULE Spec2Model ----
(***************************************************************************)
(* Model of pkg/dyff: the JSON report renderer (JSONReport.GenReport,      *)
(* JSONReport.WriteReport) and the report filters (Report.Filter,          *)
(* Report.Exclude, Report.FilterRegexp, Report.ExcludeRegexp).             *)
(*                                                                         *)
(* Strings are sequences of one-character strings, so that equality and    *)
(* strings.HasPrefix are computed on the characters.  Every operation is a *)
(* pure function of the Report it is called on: Init draws the Report (and *)
(* the sink) from bounded sets and one action applies one operation.       *)
(***************************************************************************)
EXTENDS Integers, Sequences, FiniteSets, TLC

VARIABLES report, useGoPatchPaths, call, args, result, err, doc, out

vars == <<report, useGoPatchPaths, call, args, result, err, doc, out>>

(***************************************************************************)
(* Bounds                                                                  *)
(***************************************************************************)
MaxDiffs == 3

MaxArgs == 2

MaxRenderDiffs == 2

MaxDetails == 2

MaxFailAt == 2

(***************************************************************************)
(* Generic helpers                                                         *)
(***************************************************************************)
SeqsUpTo(S, n) == UNION {[1..k -> S] : k \in 0..n}

NonEmptySeqsUpTo(S, n) == UNION {[1..k -> S] : k \in 1..n}

\* strings.HasPrefix(s, prefix)
HasPrefix(s, prefix) ==
    /\ Len(prefix) <= Len(s)
    /\ SubSeq(s, 1, Len(prefix)) = prefix

HasSuffix(s, suffix) ==
    /\ Len(suffix) <= Len(s)
    /\ SubSeq(s, Len(s) - Len(suffix) + 1, Len(s)) = suffix

Contains(s, sub) ==
    \E i \in 1..(Len(s) + 1) :
        /\ i + Len(sub) - 1 <= Len(s)
        /\ SubSeq(s, i, i + Len(sub) - 1) = sub

\* strings.Split(s, sep) for a one-character separator
RECURSIVE Split(_, _)
Split(s, sep) ==
    IF \A i \in 1..Len(s) : s[i] # sep
    THEN <<s>>
    ELSE LET i == CHOOSE k \in 1..Len(s) :
                      s[k] = sep /\ \A j \in 1..(k - 1) : s[j] # sep
         IN  <<SubSeq(s, 1, i - 1)>> \o Split(SubSeq(s, i + 1, Len(s)), sep)

\* the slice tail s[1:]
Rest(s) == SubSeq(s, 2, Len(s))

(***************************************************************************)
(* Paths (ytbx.Path): a nilable pointer in Diff.Path; compared only by     *)
(* its canonical string.  The path library is used through its interface:  *)
(* a path is its sequence of sections, parsed from go-patch or dot style,  *)
(* and its canonical string is the go-patch form.                          *)
(***************************************************************************)
NilPath == [isNil |-> TRUE, elems |-> <<>>]

MkPath(elems) == [isNil |-> FALSE, elems |-> elems]

RECURSIVE JoinSlash(_)
JoinSlash(elems) ==
    IF elems = <<>> THEN <<>>
    ELSE <<"/">> \o elems[1] \o JoinSlash(Rest(elems))

\* Path.String(): the canonical (go-patch style) string
PathString(p) == IF p.elems = <<>> THEN <<"/">> ELSE JoinSlash(p.elems)

isGoPath(p) == HasPrefix(p, <<"/">>)

NoParseError == "nil"

InvalidPathString == "invalid path string"

ParseResult(path, e) == [path |-> path, err |-> e]

\* number of parts strings.Split(section, "=") yields
KeyNameParts(section) == Len(Split(section, "="))

\* ytbx.ParsePathStringUnsafe: go-patch style when the string starts with
\* a slash, dot style otherwise; a section with more than one '=' is not a
\* valid key=name section
ParsePathStringUnsafe(s) ==
    IF isGoPath(s)
    THEN IF s = <<"/">>
         THEN ParseResult(MkPath(<<>>), NoParseError)
         ELSE LET sections == Rest(Split(s, "/"))
              IN  IF \E i \in 1..Len(sections) : KeyNameParts(sections[i]) > 2
                  THEN ParseResult(MkPath(<<>>), InvalidPathString)
                  ELSE ParseResult(MkPath(sections), NoParseError)
    ELSE ParseResult(MkPath(Split(s, ".")), NoParseError)

(***************************************************************************)
(* Regular expressions: literal patterns with optional ^ and $ anchors,    *)
(* and patterns that do not compile.                                       *)
(***************************************************************************)
Pattern(valid, anchorStart, anchorEnd, lit) ==
    [valid |-> valid, anchorStart |-> anchorStart, anchorEnd |-> anchorEnd, lit |-> lit]

\* regexp.MustCompile panics on a pattern that does not compile
CompileFails(patterns) == \E i \in 1..Len(patterns) : ~patterns[i].valid

\* (*regexp.Regexp).MatchString
MatchString(re, s) ==
    CASE re.anchorStart /\ re.anchorEnd -> s = re.lit
      [] re.anchorStart -> HasPrefix(s, re.lit)
      [] re.anchorEnd -> HasSuffix(s, re.lit)
      [] OTHER -> Contains(s, re.lit)

(***************************************************************************)
(* yaml.v3 nodes, Details, Diffs and Reports                               *)
(***************************************************************************)
ScalarNode == "ScalarNode"

SequenceNode == "SequenceNode"

InvalidNode == "InvalidNode"

Node(kind, tag, value, content) ==
    [isNil |-> FALSE, Kind |-> kind, Tag |-> tag, Value |-> value, Content |-> content]

NilNode == [isNil |-> TRUE, Kind |-> "", Tag |-> "", Value |-> "", Content |-> <<>>]

StrEmpty == Node(ScalarNode, "!!str", "", <<>>)

StrA == Node(ScalarNode, "!!str", "a", <<>>)

StrB == Node(ScalarNode, "!!str", "b", <<>>)

ADDITION == "+"

REMOVAL == "-"

MODIFICATION == "~"

ORDERCHANGE == "->"

UNSUPPORTED == "?"

Detail(kind, from, to) == [Kind |-> kind, From |-> from, To |-> to]

Diff(path, details) == [Path |-> path, Details |-> details]

InputFile(name, documents) == [Name |-> name, Documents |-> documents]

NoFile == InputFile("", 0)

Report(from, to, diffs) == [From |-> from, To |-> to, Diffs |-> diffs]

NoReport == Report(NoFile, NoFile, <<>>)

NoError == "nil"

Panic == "panic"

NotGoPatch == "exclude path should be a Go Patch"

(***************************************************************************)
(* Report renderer                                                         *)
(***************************************************************************)
JSONDiffDetail(kind, addition, removal) ==
    [Kind |-> kind, Addition |-> addition, Removal |-> removal]

JSONDiff(path, details) == [Path |-> path, Details |-> details]

JSONReportSpec(changes, differences) ==
    [Summary |-> [Changes |-> changes], Differences |-> differences]

\* the zero values JSONDiffDetail{} and JSONReportSpec{}
NoDetail == JSONDiffDetail("", "", "")

NoDoc == JSONReportSpec(0, <<>>)

SerializeError == "serialize error"

Base64Error == "illegal base64 data"

UnsupportedError == "unsupported detail type"

Quote(s) == "\"" \o s \o "\""

RECURSIVE JoinComma(_)
JoinComma(texts) ==
    IF texts = <<>> THEN ""
    ELSE IF Len(texts) = 1 THEN texts[1]
    ELSE texts[1] \o "," \o JoinComma(Rest(texts))

\* neat ToCompactJSON: scalars as quoted text, sequences as arrays; a node
\* of no known kind cannot be serialized
RECURSIVE ToCompactJSON(_)
ToCompactJSON(node) ==
    CASE node.Kind = ScalarNode -> [s |-> Quote(node.Value), err |-> NoError]
      [] node.Kind = SequenceNode ->
            LET parts == [i \in 1..Len(node.Content) |-> ToCompactJSON(node.Content[i])]
            IN  IF \E i \in 1..Len(parts) : parts[i].err # NoError
                THEN [s |-> "", err |-> SerializeError]
                ELSE [s |-> "[" \o JoinComma([i \in 1..Len(parts) |-> parts[i].s]) \o "]",
                      err |-> NoError]
      [] OTHER -> [s |-> "", err |-> SerializeError]

jsonString(node) ==
    IF node.isNil THEN [s |-> "null", err |-> NoError] ELSE ToCompactJSON(node)

humanReadableType(node) ==
    CASE node.Kind = SequenceNode -> "list"
      [] node.Kind = ScalarNode /\ node.Tag = "!!str" -> "string"
      [] node.Kind = ScalarNode /\ node.Tag = "!!binary" -> "binary"
      [] OTHER -> "unknown"

\* base64.StdEncoding.DecodeString on the payloads the nodes carry
Base64Decode(v) ==
    CASE v = "" -> [bytes |-> "", err |-> NoError]
      [] v = "YQ==" -> [bytes |-> "a", err |-> NoError]
      [] OTHER -> [bytes |-> "", err |-> Base64Error]

\* hex.Dump: nothing for no bytes, else offset, hex bytes and ASCII gutter
HexDump(bytes) ==
    IF bytes = "" THEN ""
    ELSE "00000000  61                                                |" \o bytes \o "|\n"

\* a detail of the given kind from the two rendered sides; the error of
\* from comes first, then that of to
detailOutput(kind, from, to) ==
    IF from.err # NoError THEN [item |-> JSONDiffDetail(kind, "", ""), err |-> from.err]
    ELSE IF to.err # NoError THEN [item |-> JSONDiffDetail(kind, "", ""), err |-> to.err]
    ELSE [item |-> JSONDiffDetail(kind, to.s, from.s), err |-> NoError]

\* base64 decoding followed by hex.Dump
decodeAndDump(v) == [s |-> HexDump(Base64Decode(v).bytes), err |-> Base64Decode(v).err]

\* the raw value of a string scalar
rawValue(node) == [s |-> node.Value, err |-> NoError]

generateJSONDetailOutputModification(detail) ==
    CASE humanReadableType(detail.From) = "string" /\ humanReadableType(detail.To) = "string" ->
            detailOutput(detail.Kind, rawValue(detail.From), rawValue(detail.To))
      [] humanReadableType(detail.From) = "binary" /\ humanReadableType(detail.To) = "binary" ->
            detailOutput(detail.Kind, decodeAndDump(detail.From.Value),
                         decodeAndDump(detail.To.Value))
      [] OTHER ->
            detailOutput(detail.Kind, jsonString(detail.From), jsonString(detail.To))

\* one entry of the array asJSONArray builds: the raw value, or the compact
\* JSON of the entry when the value is empty
entryText(entry) ==
    IF entry.Value = "" THEN jsonString(entry) ELSE [s |-> entry.Value, err |-> NoError]

\* the array of the entry texts marshalled as JSON strings
arrayOutput(texts) ==
    IF \E i \in 1..Len(texts) : texts[i].err # NoError
    THEN [s |-> "", err |-> SerializeError]
    ELSE [s |-> "[" \o JoinComma([i \in 1..Len(texts) |-> Quote(texts[i].s)]) \o "]",
          err |-> NoError]

\* the closure asJSONArray
asJSONArray(sequenceNode) ==
    arrayOutput([i \in 1..Len(sequenceNode.Content) |-> entryText(sequenceNode.Content[i])])

generateJSONDetailOutputOrderchange(detail) ==
    IF detail.From.Kind = SequenceNode
    THEN detailOutput(detail.Kind, asJSONArray(detail.From), asJSONArray(detail.To))
    ELSE [item |-> JSONDiffDetail(detail.Kind, "", ""), err |-> NoError]

\* an Addition entry from the rendered To node
additionOutput(s) ==
    IF s.err # NoError THEN [item |-> NoDetail, err |-> s.err]
    ELSE [item |-> JSONDiffDetail(ADDITION, s.s, ""), err |-> NoError]

\* a Removal entry from the rendered From node
removalOutput(s) ==
    IF s.err # NoError THEN [item |-> NoDetail, err |-> s.err]
    ELSE [item |-> JSONDiffDetail(REMOVAL, "", s.s), err |-> NoError]

generateJSONDetailOutput(detail) ==
    CASE detail.Kind = ADDITION -> additionOutput(jsonString(detail.To))
      [] detail.Kind = REMOVAL -> removalOutput(jsonString(detail.From))
      [] detail.Kind = MODIFICATION -> generateJSONDetailOutputModification(detail)
      [] detail.Kind = ORDERCHANGE -> generateJSONDetailOutputOrderchange(detail)
      [] OTHER -> [item |-> NoDetail, err |-> UnsupportedError]

RECURSIVE Chars(_)
Chars(cs) == IF cs = <<>> THEN "" ELSE cs[1] \o Chars(Rest(cs))

RECURSIVE JoinDot(_)
JoinDot(elems) ==
    IF elems = <<>> THEN ""
    ELSE IF Len(elems) = 1 THEN Chars(elems[1])
    ELSE Chars(elems[1]) \o "." \o JoinDot(Rest(elems))

\* the rendered path: go-patch or dot style, with the document index when
\* the from side has more than one document
pathToString(path, goPatchPaths, showPathRoot) ==
    (IF showPathRoot THEN "0:" ELSE "")
        \o (IF goPatchPaths THEN Chars(PathString(path)) ELSE JoinDot(path.elems))

\* one round of a rendering loop: an error of the element ends the loop,
\* else the element is stored and the loop goes on with the rest
storeRendered(head, rest) ==
    IF head.err # NoError THEN [items |-> <<>>, err |-> head.err]
    ELSE [items |-> <<head.item>> \o rest.items, err |-> rest.err]

\* the loop over diff.Details
RECURSIVE renderDetails(_)
renderDetails(details) ==
    IF details = <<>> THEN [items |-> <<>>, err |-> NoError]
    ELSE storeRendered(generateJSONDetailOutput(details[1]), renderDetails(Rest(details)))

Reversed(s) == [i \in 1..Len(s) |-> s[Len(s) + 1 - i]]

\* faulty variant: the rendered details are collected in reverse order
diffOutputReversed(rendered, path) ==
    IF rendered.err # NoError THEN [item |-> JSONDiff("", <<>>), err |-> rendered.err]
    ELSE [item |-> JSONDiff(path, Reversed(rendered.items)), err |-> NoError]

\* the JSONDiff generateJSONDiffOutput returns for the rendered details
diffOutput(rendered, path) ==
    IF rendered.err # NoError THEN [item |-> JSONDiff("", <<>>), err |-> rendered.err]
    ELSE [item |-> JSONDiff(path, rendered.items), err |-> NoError]

generateJSONDiffOutput(diff, goPatchPaths, showPathRoot) ==
    diffOutput(renderDetails(diff.Details),
               pathToString(diff.Path, goPatchPaths, showPathRoot))

\* the loop over report.Diffs
RECURSIVE renderDiffs(_, _, _)
renderDiffs(diffs, goPatchPaths, showPathRoot) ==
    IF diffs = <<>> THEN [items |-> <<>>, err |-> NoError]
    ELSE storeRendered(generateJSONDiffOutput(diffs[1], goPatchPaths, showPathRoot),
                       renderDiffs(Rest(diffs), goPatchPaths, showPathRoot))

\* faulty variant: on an error the document counts the Diffs of the Report
reportOutputPartial(rendered, changes) ==
    [doc |-> JSONReportSpec(changes, rendered.items), err |-> rendered.err]

\* the document GenReport returns for the rendered Diffs
reportOutput(rendered, changes) ==
    IF rendered.err # NoError THEN [doc |-> NoDoc, err |-> rendered.err]
    ELSE [doc |-> JSONReportSpec(changes, rendered.items), err |-> NoError]

GenReport(r, goPatchPaths) ==
    reportOutput(renderDiffs(r.Diffs, goPatchPaths, r.From.Documents > 1), Len(r.Diffs))

(***************************************************************************)
(* json.Marshal of the report document: fields tagged omitempty are left   *)
(* out when they hold the empty string or an empty list                    *)
(***************************************************************************)
Field(name, text) == [name |-> name, text |-> text]

EncodeObject(fields) ==
    "{" \o JoinComma([i \in 1..Len(fields) |-> Quote(fields[i].name) \o ":" \o fields[i].text])
        \o "}"

\* the fields json.Marshal emits for a JSONDiffDetail
MarshalDetailFields(d) ==
    <<Field("kind", Quote(d.Kind))>>
        \o (IF d.Addition # "" THEN <<Field("addition", Quote(d.Addition))>> ELSE <<>>)
        \o (IF d.Removal # "" THEN <<Field("removal", Quote(d.Removal))>> ELSE <<>>)

MarshalDiff(d) ==
    EncodeObject(<<Field("path", Quote(d.Path)),
                   Field("details",
                         "[" \o JoinComma([i \in 1..Len(d.Details) |->
                                              EncodeObject(MarshalDetailFields(d.Details[i]))])
                             \o "]")>>)

\* the fields json.Marshal emits for a JSONReportSpec
MarshalReportFields(d) ==
    <<Field("summary", EncodeObject(<<Field("changes", ToString(d.Summary.Changes))>>))>>
        \o (IF Len(d.Differences) > 0
            THEN <<Field("differences",
                         "[" \o JoinComma([i \in 1..Len(d.Differences) |->
                                              MarshalDiff(d.Differences[i])]) \o "]")>>
            ELSE <<>>)

Marshal(d) == EncodeObject(MarshalReportFields(d))

(***************************************************************************)
(* bufio.Writer over the sink.  The sink accepts whole writes until its    *)
(* failAt-th call (0: never), which writes nothing and returns an error.   *)
(***************************************************************************)
defaultBufSize == 4096

WriteError == "write error"

Sink(failAt, isStringWriter) ==
    [bytes |-> 0, calls |-> 0, failAt |-> failAt, isStringWriter |-> isStringWriter,
     failed |-> FALSE]

NoSink == Sink(0, FALSE)

\* one Write (or WriteString) call on the sink
SinkWrite(sink, n) ==
    IF sink.calls + 1 = sink.failAt
    THEN [sink EXCEPT !.calls = @ + 1, !.failed = TRUE]
    ELSE [sink EXCEPT !.calls = @ + 1, !.bytes = @ + n]

\* bufio.NewWriter(out)
NewWriter(sink) == [n |-> 0, err |-> NoError, wr |-> sink]

Available(b) == defaultBufSize - b.n

\* (*bufio.Writer).Flush
Flush(b) ==
    IF b.err # NoError THEN b
    ELSE IF b.n = 0 THEN b
    ELSE LET wr == SinkWrite(b.wr, b.n)
         IN  IF wr.failed THEN [b EXCEPT !.wr = wr, !.err = WriteError]
             ELSE [b EXCEPT !.wr = wr, !.n = 0]

Min(a, b) == IF a < b THEN a ELSE b

\* one round of the loop of WriteString: a large write on an empty buffer
\* goes to a sink that is a StringWriter in one call, else the buffer is
\* filled and flushed; the writer and the bytes of the string left
WriteStringStep(b, len) ==
    IF b.n = 0 /\ b.wr.isStringWriter
    THEN IF SinkWrite(b.wr, len).failed
         THEN [writer |-> [b EXCEPT !.wr = SinkWrite(b.wr, len), !.err = WriteError],
               len |-> len]
         ELSE [writer |-> [b EXCEPT !.wr = SinkWrite(b.wr, len)], len |-> 0]
    ELSE [writer |-> Flush([b EXCEPT !.n = @ + Min(Available(b), len)]),
          len |-> len - Min(Available(b), len)]

\* (*bufio.Writer).WriteString for a string of len bytes: the writer after
\* the call and the returned error
RECURSIVE WriteString(_, _)
WriteString(b, len) ==
    IF len > Available(b) /\ b.err = NoError
    THEN WriteString(WriteStringStep(b, len).writer, WriteStringStep(b, len).len)
    ELSE IF b.err # NoError THEN [writer |-> b, err |-> b.err]
    ELSE [writer |-> [b EXCEPT !.n = @ + len], err |-> NoError]

\* the return of WriteReport: the error, and the sink after the deferred
\* Flush, whose own error is dropped
deferredFlush(writer, e) == [err |-> e, out |-> Flush(writer).wr]

\* WriteReport after GenReport
writeGenerated(generated, writer) ==
    IF generated.err # NoError THEN deferredFlush(writer, generated.err)
    ELSE deferredFlush(WriteString(writer, Len(Marshal(generated.doc))).writer,
                       WriteString(writer, Len(Marshal(generated.doc))).err)

WriteReport(r, goPatchPaths, sink) ==
    writeGenerated(GenReport(r, goPatchPaths), NewWriter(sink))

(***************************************************************************)
(* Report filters                                                          *)
(***************************************************************************)
\* faulty variant: the kept Diffs are prepended, not appended
RECURSIVE keepDiffsPrepend(_, _)
keepDiffsPrepend(diffs, hasPath) ==
    IF diffs = <<>> THEN <<>>
    ELSE keepDiffsPrepend(Rest(diffs), hasPath)
             \o (IF hasPath[diffs[1].Path] THEN <<diffs[1]>> ELSE <<>>)

\* the loop of Report.filter: append the Diffs whose Path satisfies hasPath
RECURSIVE keepDiffs(_, _)
keepDiffs(diffs, hasPath) ==
    IF diffs = <<>> THEN <<>>
    ELSE (IF hasPath[diffs[1].Path] THEN <<diffs[1]>> ELSE <<>>)
             \o keepDiffs(Rest(diffs), hasPath)

\* the paths a predicate handed to filter is applied to
PathsOf(r) == {r.Diffs[i].Path : i \in 1..Len(r.Diffs)}

\* hasPath is the predicate, a function of the path
filter(r, hasPath) == Report(r.From, r.To, keepDiffs(r.Diffs, hasPath))

\* faulty variant: the first unparsable input path ends the scan
FilterHasPathAbort(paths, filterPath) ==
    \E i \in 1..Len(paths) :
        /\ \A j \in 1..i : ParsePathStringUnsafe(paths[j]).err = NoParseError
        /\ ~filterPath.isNil
        /\ PathString(ParsePathStringUnsafe(paths[i]).path) = PathString(filterPath)

\* the predicate Filter hands to filter
FilterHasPath(paths, filterPath) ==
    \E i \in 1..Len(paths) :
        LET parsed == ParsePathStringUnsafe(paths[i])
        IN  /\ parsed.err = NoParseError
            /\ ~filterPath.isNil
            /\ PathString(parsed.path) = PathString(filterPath)

\* faulty variant: no early return for an empty list
FilterNoEarlyReturn(r, paths) ==
    LET hasPath == [p \in PathsOf(r) |-> FilterHasPath(paths, p)] IN filter(r, hasPath)

Filter(r, paths) ==
    IF Len(paths) = 0 THEN r
    ELSE LET hasPath == [p \in PathsOf(r) |-> FilterHasPath(paths, p)] IN filter(r, hasPath)

\* the loop of Exclude that validates and re-stringifies the input paths;
\* it stops at the first path that is not a go-patch path or fails to parse
RECURSIVE ExcludePrefixes(_)
ExcludePrefixes(paths) ==
    IF paths = <<>> THEN [ps |-> <<>>, err |-> NoError]
    ELSE IF ~isGoPath(paths[1]) THEN [ps |-> <<>>, err |-> NotGoPatch]
    ELSE LET parsed == ParsePathStringUnsafe(paths[1])
         IN  IF parsed.err # NoParseError THEN [ps |-> <<>>, err |-> parsed.err]
             ELSE LET rest == ExcludePrefixes(Rest(paths))
                  IN  [ps |-> <<PathString(parsed.path)>> \o rest.ps, err |-> rest.err]

\* faulty variant: a Diff is excluded only when its path string equals an input
ExcludeHasPathExact(ps, errResult, filterPath) ==
    ~ \E i \in 1..Len(ps) :
          /\ errResult = NoError
          /\ ~filterPath.isNil
          /\ PathString(filterPath) = ps[i]

\* the predicate Exclude hands to filter; errResult is the named result err,
\* still nil while the closure runs
ExcludeHasPath(ps, errResult, filterPath) ==
    ~ \E i \in 1..Len(ps) :
          /\ errResult = NoError
          /\ ~filterPath.isNil
          /\ HasPrefix(PathString(filterPath), ps[i])

\* faulty variant: on a bad input path the Report filtered by the paths validated
\* so far is returned with the error
ExcludePartial(r, paths) ==
    IF Len(paths) = 0 THEN [result |-> r, err |-> NoError]
    ELSE LET pre == ExcludePrefixes(paths)
             hasPath == [p \in PathsOf(r) |-> ExcludeHasPath(pre.ps, NoError, p)]
         IN  [result |-> filter(r, hasPath), err |-> pre.err]

Exclude(r, paths) ==
    IF Len(paths) = 0 THEN [result |-> r, err |-> NoError]
    ELSE LET pre == ExcludePrefixes(paths)
             hasPath == [p \in PathsOf(r) |-> ExcludeHasPath(pre.ps, NoError, p)]
         IN  IF pre.err # NoError THEN [result |-> r, err |-> pre.err]
             ELSE [result |-> filter(r, hasPath), err |-> NoError]

\* faulty variant: a nil path matches every inclusion pattern
FilterRegexpHasPathNil(regexps, filterPath) ==
    \E i \in 1..Len(regexps) :
        filterPath.isNil \/ MatchString(regexps[i], PathString(filterPath))

FilterRegexpHasPath(regexps, filterPath) ==
    \E i \in 1..Len(regexps) :
        ~filterPath.isNil /\ MatchString(regexps[i], PathString(filterPath))

FilterRegexp(r, pattern) ==
    IF Len(pattern) = 0 THEN [result |-> r, err |-> NoError]
    ELSE IF CompileFails(pattern) THEN [result |-> NoReport, err |-> Panic]
    ELSE LET hasPath == [p \in PathsOf(r) |-> FilterRegexpHasPath(pattern, p)]
         IN  [result |-> filter(r, hasPath), err |-> NoError]

ExcludeRegexpHasPath(regexps, filterPath) ==
    ~ \E i \in 1..Len(regexps) :
          ~filterPath.isNil /\ MatchString(regexps[i], PathString(filterPath))

ExcludeRegexp(r, pattern) ==
    IF Len(pattern) = 0 THEN [result |-> r, err |-> NoError]
    ELSE IF CompileFails(pattern) THEN [result |-> NoReport, err |-> Panic]
    ELSE LET hasPath == [p \in PathsOf(r) |-> ExcludeRegexpHasPath(pattern, p)]
         IN  [result |-> filter(r, hasPath), err |-> NoError]

(***************************************************************************)
(* Inputs of the filter operations                                         *)
(***************************************************************************)
FromFile == InputFile("from", 1)

ToFile == InputFile("to", 1)

\* canonical strings of the paths the Diffs of a Report carry
DiffPaths ==
    { NilPath,
      MkPath(<< <<"a">> >>),
      MkPath(<< <<"a">>, <<"b">> >>),
      MkPath(<< <<"a", "b">> >>) }

FilterDiffs ==
    { Diff(p, <<Detail(ADDITION, NilNode, StrA)>>) : p \in DiffPaths }
        \cup { Diff(MkPath(<< <<"a">> >>), <<Detail(REMOVAL, StrA, NilNode)>>) }

\* "/", "/a", the dot-style "a.b" and the unparsable "/=="
PathInputs == { <<"/">>, <<"/", "a">>, <<"a", ".", "b">>, <<"/", "=", "=">> }

\* /a, ^/a$, b$ and a pattern that does not compile
PatternInputs ==
    { Pattern(TRUE, FALSE, FALSE, <<"/", "a">>),
      Pattern(TRUE, TRUE, TRUE, <<"/", "a">>),
      Pattern(TRUE, FALSE, TRUE, <<"b">>),
      Pattern(FALSE, FALSE, FALSE, <<"(">>) }

InitFilter ==
    /\ report \in {Report(FromFile, ToFile, d) : d \in SeqsUpTo(FilterDiffs, MaxDiffs)}
    /\ useGoPatchPaths = TRUE
    /\ call = "none"
    /\ args = <<>>
    /\ result = NoReport
    /\ err = NoError
    /\ doc = NoDoc
    /\ out = NoSink

CallFilter ==
    /\ call = "none"
    /\ \E paths \in SeqsUpTo(PathInputs, MaxArgs) :
           /\ args' = paths
           /\ result' = Filter(report, paths)
    /\ call' = "Filter"
    /\ err' = NoError
    /\ UNCHANGED <<report, useGoPatchPaths, doc, out>>

CallExclude ==
    /\ call = "none"
    /\ \E paths \in SeqsUpTo(PathInputs, MaxArgs) :
           /\ args' = paths
           /\ result' = Exclude(report, paths).result
           /\ err' = Exclude(report, paths).err
    /\ call' = "Exclude"
    /\ UNCHANGED <<report, useGoPatchPaths, doc, out>>

CallFilterRegexp ==
    /\ call = "none"
    /\ \E pattern \in SeqsUpTo(PatternInputs, MaxArgs) :
           /\ args' = pattern
           /\ result' = FilterRegexp(report, pattern).result
           /\ err' = FilterRegexp(report, pattern).err
    /\ call' = "FilterRegexp"
    /\ UNCHANGED <<report, useGoPatchPaths, doc, out>>

CallExcludeRegexp ==
    /\ call = "none"
    /\ \E pattern \in SeqsUpTo(PatternInputs, MaxArgs) :
           /\ args' = pattern
           /\ result' = ExcludeRegexp(report, pattern).result
           /\ err' = ExcludeRegexp(report, pattern).err
    /\ call' = "ExcludeRegexp"
    /\ UNCHANGED <<report, useGoPatchPaths, doc, out>>

NextFilter == CallFilter \/ CallExclude \/ CallFilterRegexp \/ CallExcludeRegexp

SpecFilter == InitFilter /\ [][NextFilter]_vars

(***************************************************************************)
(* Properties of the filters                                               *)
(***************************************************************************)
FilterCalls == {"Filter", "Exclude", "FilterRegexp", "ExcludeRegexp"}

Returned == call \in FilterCalls /\ err # Panic

\* the elements of s at the indices in I, in increasing index order
RECURSIVE PickFrom(_, _, _)
PickFrom(s, I, i) ==
    IF i > Len(s) THEN <<>>
    ELSE (IF i \in I THEN <<s[i]>> ELSE <<>>) \o PickFrom(s, I, i + 1)

IsSubsequence(a, b) == \E I \in SUBSET (1..Len(b)) : a = PickFrom(b, I, 1)

NilPathCount(diffs) == Cardinality({i \in 1..Len(diffs) : diffs[i].Path.isNil})

\* C1: every filter operation that returns without error returns a Report
\* with the same From and To whose Diffs are a subsequence of the original
\* Diffs, in the same relative order.
C1_Subsequence ==
    (call \in FilterCalls /\ err = NoError) =>
        /\ result.From = report.From
        /\ result.To = report.To
        /\ IsSubsequence(result.Diffs, report.Diffs)

C1_Witness ==
    /\ call = "Filter"
    /\ Len(report.Diffs) = 3
    /\ report.Diffs[1] # report.Diffs[3]
    /\ result.Diffs = <<report.Diffs[1], report.Diffs[3]>>

\* C2 as stated: for every argument list a Diff with a nil path is never in
\* the result of Filter and FilterRegexp and is always in the result of
\* Exclude and ExcludeRegexp.
C2_Original ==
    /\ (Returned /\ call \in {"Filter", "FilterRegexp"}) =>
           NilPathCount(result.Diffs) = 0
    /\ (Returned /\ call \in {"Exclude", "ExcludeRegexp"}) =>
           NilPathCount(result.Diffs) = NilPathCount(report.Diffs)

\* C2 amended: for every non-empty argument list a Diff with a nil path is
\* never in the result of Filter and FilterRegexp; for every argument list
\* it is always in the result of Exclude and ExcludeRegexp.
C2_NilPath ==
    /\ (Returned /\ call \in {"Filter", "FilterRegexp"} /\ Len(args) > 0) =>
           NilPathCount(result.Diffs) = 0
    /\ (Returned /\ call \in {"Exclude", "ExcludeRegexp"}) =>
           NilPathCount(result.Diffs) = NilPathCount(report.Diffs)

C2_Witness ==
    /\ call = "FilterRegexp"
    /\ err = NoError
    /\ Len(args) > 0
    /\ NilPathCount(report.Diffs) > 0
    /\ Len(result.Diffs) > 0
    /\ NilPathCount(result.Diffs) = 0

BadExcludePath(p) == ~isGoPath(p) \/ ParsePathStringUnsafe(p).err # NoParseError

\* C3: when any input path of Exclude is not a go-patch path or fails to
\* parse, Exclude returns an error and the original Report, all Diffs kept.
C3_ExcludeError ==
    (call = "Exclude" /\ \E i \in 1..Len(args) : BadExcludePath(args[i])) =>
        /\ err # NoError
        /\ result = report

C3_Witness ==
    /\ call = "Exclude"
    /\ Len(args) = 2
    /\ args[1] = <<"/", "a">>
    /\ BadExcludePath(args[2])
    /\ \E i \in 1..Len(report.Diffs) :
           ~report.Diffs[i].Path.isNil
               /\ HasPrefix(PathString(report.Diffs[i].Path), <<"/", "a">>)
    /\ err # NoError
    /\ result = report

\* canonical strings of the input paths that parse
CanonicalInputs(paths) ==
    { PathString(ParsePathStringUnsafe(paths[i]).path) :
          i \in {j \in 1..Len(paths) : ParsePathStringUnsafe(paths[j]).err = NoParseError} }

\* C7: for a non-empty list Filter keeps a Diff iff its path string is the
\* canonical string of some input path that parses; unparsable inputs
\* match nothing and cause no error.
C7_FilterExact ==
    (call = "Filter" /\ Len(args) > 0) =>
        LET Kept(d) == ~d.Path.isNil /\ PathString(d.Path) \in CanonicalInputs(args)
        IN  /\ result.Diffs = SelectSeq(report.Diffs, Kept)
            /\ err = NoError

C7_Witness ==
    /\ call = "Filter"
    /\ args = << <<"/", "=", "=">>, <<"a", ".", "b">> >>
    /\ Len(result.Diffs) = 1
    /\ Len(report.Diffs) = 3
    /\ PathString(result.Diffs[1].Path) = <<"/", "a", "/", "b">>

\* re-stringified prefixes of valid go-patch input paths
Prefixes(paths) ==
    { PathString(ParsePathStringUnsafe(paths[i]).path) : i \in 1..Len(paths) }

StartsWithSome(d, prefixes) ==
    ~d.Path.isNil /\ \E p \in prefixes : HasPrefix(PathString(d.Path), p)

C10_EmptyArgs ==
    (call \in FilterCalls /\ Len(args) = 0) =>
        /\ result = report
        /\ err = NoError

C10_Witness ==
    /\ call = "Filter"
    /\ Len(args) = 0
    /\ Len(report.Diffs) = 3
    /\ NilPathCount(report.Diffs) = 1
    /\ result = report

(***************************************************************************)
(* Inputs of the renderer                                                  *)
(***************************************************************************)
BinOK == Node(ScalarNode, "!!binary", "YQ==", <<>>)

BinEmpty == Node(ScalarNode, "!!binary", "", <<>>)

BinBad == Node(ScalarNode, "!!binary", "!", <<>>)

BadNode == Node(InvalidNode, "", "", <<>>)

SeqAB == Node(SequenceNode, "!!seq", "", <<StrA, StrB>>)

SeqEmptyValue == Node(SequenceNode, "!!seq", "", <<StrEmpty>>)

SeqBad == Node(SequenceNode, "!!seq", "", <<StrA, BadNode>>)

RECURSIVE Repeat(_, _)
Repeat(s, k) == IF k = 0 THEN s ELSE Repeat(s \o s, k - 1)

\* a string scalar of 4096 characters: its document overflows the buffer
StrLong == Node(ScalarNode, "!!str", Repeat("x", 12), <<>>)

AdditionDetails ==
    { Detail(ADDITION, NilNode, to) : to \in {NilNode, StrEmpty, StrA, SeqAB, BadNode, StrLong} }

RemovalDetails ==
    { Detail(REMOVAL, from, NilNode) : from \in {NilNode, StrEmpty, StrA, SeqAB, BadNode} }

\* two strings, two binaries, and pairs of other or differing types
ModificationDetails ==
    { Detail(MODIFICATION, from, to) : from \in {StrEmpty, StrA}, to \in {StrEmpty, StrA} }
        \cup { Detail(MODIFICATION, from, to) :
                   from \in {BinOK, BinEmpty, BinBad}, to \in {BinOK, BinEmpty, BinBad} }
        \cup { Detail(MODIFICATION, StrA, BinOK), Detail(MODIFICATION, SeqAB, StrEmpty),
               Detail(MODIFICATION, BinBad, StrA), Detail(MODIFICATION, StrA, BadNode),
               Detail(MODIFICATION, BadNode, StrA) }

OrderChangeNodes == {StrA, SeqAB, SeqEmptyValue, SeqBad}

OrderChangeDetails ==
    { Detail(ORDERCHANGE, from, to) : from \in OrderChangeNodes, to \in OrderChangeNodes }

Details ==
    AdditionDetails \cup RemovalDetails \cup ModificationDetails \cup OrderChangeDetails
        \cup {Detail(UNSUPPORTED, StrA, StrA)}

BaseDetail == Detail(ADDITION, NilNode, StrA)

RenderPath == MkPath(<< <<"a">>, <<"b">> >>)

\* the Details of a Report in order, Diff after Diff
RECURSIVE AllDetails(_)
AllDetails(diffs) ==
    IF diffs = <<>> THEN <<>> ELSE diffs[1].Details \o AllDetails(Rest(diffs))

\* Diffs of the given numbers of Details, all BaseDetail but for focus as
\* Detail j of Diff i (nowhere when i = 0)
RenderDiffs(lens, i, j, focus) ==
    [m \in 1..Len(lens) |->
        Diff(RenderPath,
             [n \in 1..lens[m] |-> IF m = i /\ n = j THEN focus ELSE BaseDetail])]

\* a Report whose Details are BaseDetail, but for at most one other Detail
InitRender ==
    /\ \E k \in 0..MaxRenderDiffs, documents \in {1, 2} :
           \E lens \in [1..k -> 1..MaxDetails] :
               \E i \in 0..k, j \in 1..MaxDetails, focus \in Details :
                   /\ i = 0 => (j = 1 /\ focus = BaseDetail)
                   /\ i > 0 => j <= lens[i]
                   /\ report = Report(InputFile("from", documents), ToFile,
                                      RenderDiffs(lens, i, j, focus))
    /\ useGoPatchPaths = TRUE
    /\ call = "none"
    /\ args = <<>>
    /\ result = NoReport
    /\ err = NoError
    /\ doc = NoDoc
    /\ out = NoSink

\* what GenReport returns
ReturnGenReport(ret) == doc' = ret.doc /\ err' = ret.err

CallGenReport ==
    /\ call = "none"
    /\ call' = "GenReport"
    /\ ReturnGenReport(GenReport(report, useGoPatchPaths))
    /\ UNCHANGED <<report, useGoPatchPaths, args, result, out>>

\* what WriteReport returns, and the sink it leaves
ReturnWriteReport(ret) == err' = ret.err /\ out' = ret.out

CallWriteReport ==
    /\ call = "none"
    /\ call' = "WriteReport"
    /\ \E failAt \in 0..MaxFailAt, isStringWriter \in BOOLEAN :
           ReturnWriteReport(WriteReport(report, useGoPatchPaths,
                                         Sink(failAt, isStringWriter)))
    /\ UNCHANGED <<report, useGoPatchPaths, args, result, doc>>

NextRender == CallGenReport \/ CallWriteReport

SpecRender == InitRender /\ [][NextRender]_vars

(***************************************************************************)
(* Properties of the renderer                                              *)
(***************************************************************************)
DetailError(d) == generateJSONDetailOutput(d).err

\* index of the first Detail of the Report that fails to render, 0 if none
FirstFailing(r) ==
    LET ds == AllDetails(r.Diffs)
        failing == {i \in 1..Len(ds) : DetailError(ds[i]) # NoError}
    IN  IF failing = {} THEN 0 ELSE CHOOSE i \in failing : \A j \in failing : i <= j

FirstError(r) ==
    IF FirstFailing(r) = 0 THEN NoError
    ELSE DetailError(AllDetails(r.Diffs)[FirstFailing(r)])

\* C4: when a Detail fails to render, GenReport returns that error with an
\* empty document and WriteReport returns that error with nothing written
\* to the sink, however many Details rendered before it.
C4_NoPartialOutput ==
    (call \in {"GenReport", "WriteReport"} /\ FirstFailing(report) > 0) =>
        /\ err = FirstError(report)
        /\ err \in {UnsupportedError, Base64Error, SerializeError}
        /\ call = "GenReport" => doc = NoDoc
        /\ call = "WriteReport" => (out.bytes = 0 /\ out.calls = 0)

C4_Witness ==
    /\ call = "GenReport"
    /\ err = Base64Error
    /\ FirstFailing(report) = 4
    /\ doc = NoDoc

\* C5 as stated: WriteReport returns the error of every failed write to the
\* sink, a write made by the final flush included, and when it returns nil
\* the whole serialized document has reached the sink.
C5_WriteErrorPropagated ==
    (call = "WriteReport" /\ FirstFailing(report) = 0) =>
        /\ out.failed => err # NoError
        /\ err = NoError =>
               out.bytes = Len(Marshal(GenReport(report, useGoPatchPaths).doc))

\* names of the fields the emitted document has for a detail entry
EmittedFields(d) ==
    {MarshalDetailFields(d)[i].name : i \in 1..Len(MarshalDetailFields(d))}

FieldsOfKind(detail) ==
    CASE detail.Kind = ADDITION -> {"kind", "addition"}
      [] detail.Kind = REMOVAL -> {"kind", "removal"}
      [] detail.Kind = MODIFICATION -> {"kind", "addition", "removal"}
      [] detail.Kind = ORDERCHANGE /\ detail.From.Kind = SequenceNode ->
            {"kind", "addition", "removal"}
      [] OTHER -> {"kind"}

\* C6 as stated: in the emitted document the fields of a detail entry are
\* those of its Kind, for every node value, and an OrderChange whose From
\* node is not a sequence is no error.
C6_FieldsByKind ==
    /\ (call = "GenReport" /\ err = NoError) =>
           \A i \in 1..Len(report.Diffs) :
               \A j \in 1..Len(report.Diffs[i].Details) :
                   EmittedFields(doc.Differences[i].Details[j])
                       = FieldsOfKind(report.Diffs[i].Details[j])
    /\ call = "GenReport" =>
           \A i \in 1..Len(report.Diffs) :
               \A j \in 1..Len(report.Diffs[i].Details) :
                   LET d == report.Diffs[i].Details[j]
                   IN  (d.Kind = ORDERCHANGE /\ d.From.Kind # SequenceNode)
                           => DetailError(d) = NoError

\* C9: on success summary.changes is the number of Diffs and of entries of
\* differences, entry i renders Diff i and its detail j renders Detail j,
\* and a Report without Diffs serializes without a differences field.
C9_DocumentShape ==
    (call = "GenReport" /\ err = NoError) =>
        /\ doc.Summary.Changes = Len(report.Diffs)
        /\ Len(doc.Differences) = Len(report.Diffs)
        /\ \A i \in 1..Len(report.Diffs) :
               /\ doc.Differences[i].Path
                      = pathToString(report.Diffs[i].Path, useGoPatchPaths,
                                     report.From.Documents > 1)
               /\ Len(doc.Differences[i].Details) = Len(report.Diffs[i].Details)
               /\ \A j \in 1..Len(report.Diffs[i].Details) :
                      doc.Differences[i].Details[j]
                          = generateJSONDetailOutput(report.Diffs[i].Details[j]).item
        /\ Len(report.Diffs) = 0 => Marshal(doc) = "{\"summary\":{\"changes\":0}}"

C9_Witness ==
    /\ call = "GenReport"
    /\ err = NoError
    /\ Len(report.Diffs) = 2
    /\ Len(report.Diffs[1].Details) = 2
    /\ report.Diffs[1].Details[1].Kind = ORDERCHANGE
    /\ report.Diffs[1].Details[2].Kind = ADDITION
    /\ doc.Differences[1].Details[1].Kind = ORDERCHANGE
    /\ doc.Summary.Changes = 2

====
